---- MODULE Spec2Model ----
(***************************************************************************)
(* The three calculators of the repository (src/bin/garage_earth.rs,       *)
(* src/bin/garage_supply.rs, src/bin/earthing_conductor.rs) as one state   *)
(* machine: a run parses its command line, prints its console report,      *)
(* generates the markdown (reading and substituting the template where the *)
(* program has one) and writes it.                                         *)
(*                                                                         *)
(* Numbers.  An f64 is modelled by the exact rational it approximates, a   *)
(* pair <<n, d>> in lowest terms with d >= 0; d = 0 encodes the values     *)
(* that are not finite (<<1,0>> = inf, <<-1,0>> = -inf, <<0,0>> = NaN).    *)
(* The relative rounding error of f64 arithmetic (2^-53 per operation) is  *)
(* not modelled in the value; it is accounted for where it can be seen:    *)
(* "{:.2}" of a value that sits exactly on a rounding boundary may print   *)
(* either neighbour (Fmt2Set), and a square root is an enclosure [lo, hi]. *)
(*                                                                         *)
(* Text.  A String is a sequence of one-character strings, and             *)
(* str::replace is computed character by character.  The literals of the  *)
(* source are kept, with "mm2" for the superscript and "GBP" for the pound *)
(* sign.                                                                   *)
(***************************************************************************)
EXTENDS Integers, Sequences, FiniteSets, TLC

\* ------------------------------------------------------------------ f64

Abs(x) == IF x < 0 THEN -x ELSE x

Sign(x) == IF x < 0 THEN -1 ELSE IF x > 0 THEN 1 ELSE 0

RECURSIVE GCD(_, _)
GCD(a, b) == IF b = 0 THEN a ELSE GCD(b, a % b)

\* n/d in lowest terms, the sign in the numerator
Rat(n, d) ==
    IF d = 0 THEN <<Sign(n), 0>>
    ELSE LET g == GCD(Abs(n), Abs(d))
             s == Sign(d)
         IN  <<(s * n) \div g, (s * d) \div g>>

RInt(k) == <<k, 1>>

IsFinite(a) == a[2] # 0

\* a * b, reduced crosswise before the products are formed
RMul(a, b) ==
    IF a[2] = 0 \/ b[2] = 0
    THEN <<Sign(a[1]) * Sign(b[1]), 0>>
    ELSE LET g1 == GCD(Abs(a[1]), b[2])
             g2 == GCD(Abs(b[1]), a[2])
         IN  Rat((a[1] \div g1) * (b[1] \div g2), (a[2] \div g2) * (b[2] \div g1))

\* a / b: x/0 is an infinity (0/0 is NaN), a finite x over an infinity is 0, inf/inf is NaN
RDiv(a, b) ==
    IF a[2] = 0 /\ b[2] = 0 THEN <<0, 0>>
    ELSE IF b[2] = 0 THEN <<0, 1>>
    ELSE RMul(a, IF b[1] < 0 THEN <<-b[2], -b[1]>> ELSE <<b[2], b[1]>>)

\* a - b over the least common denominator
RSub(a, b) ==
    IF a[2] = 0 \/ b[2] = 0
    THEN (IF a[2] # 0 THEN <<-b[1], 0>>
          ELSE IF b[2] # 0 THEN a
          ELSE IF a[1] = -b[1] THEN a ELSE <<0, 0>>)
    ELSE LET g == GCD(a[2], b[2])
         IN  Rat(a[1] * (b[2] \div g) - b[1] * (a[2] \div g), (a[2] \div g) * b[2])

\* a < b, both finite
RLt(a, b) == a[1] * b[2] < b[1] * a[2]

RLe(a, b) == a[1] * b[2] <= b[1] * a[2]

\* |a - b| < eps, all finite
Within(a, b, eps) ==
    LET diff == RSub(a, b)
    IN  RLt(<<Abs(diff[1]), diff[2]>>, eps)

RMin(a, b) == IF RLe(a, b) THEN a ELSE b

RMax(a, b) == IF RLe(a, b) THEN b ELSE a

\* floor of the square root of a natural number, by bisection
RECURSIVE Bisect(_, _, _)
Bisect(x, lo, hi) ==
    IF hi - lo <= 1 THEN lo
    ELSE LET mid == (lo + hi) \div 2
         IN  IF mid * mid <= x THEN Bisect(x, mid, hi) ELSE Bisect(x, lo, mid)

ISqrt(x) == Bisect(x, 0, 46341)

\* f64::sqrt of a whole number 0..21: an enclosure [lo, hi] of width 10^-4 at most
\* (lo = hi when the root is exact); NaN for a negative number
Sqrt(x) ==
    IF x[1] < 0 THEN [lo |-> <<0, 0>>, hi |-> <<0, 0>>]
    ELSE LET s == ISqrt(x[1] * 100000000)
         IN  [lo |-> Rat(s, 10000),
              hi |-> IF s * s = x[1] * 100000000 THEN Rat(s, 10000) ELSE Rat(s + 1, 10000)]

\* ----------------------------------------------------------- the formulas

\* a conductor size without the square root of the duration
conductor_size_without_sqrt(fault_current, fault_duration, k_factor) ==
    LET a == RDiv(RMul(fault_current, fault_duration), k_factor)
    IN  [lo |-> a, hi |-> a]

\* a conductor size that refuses a k_factor that is not positive and returns 0
conductor_size_guarding_k(fault_current, fault_duration, k_factor) ==
    IF k_factor[1] <= 0
    THEN [lo |-> <<0, 1>>, hi |-> <<0, 1>>]
    ELSE LET r == Sqrt(fault_duration)
         IN  [lo |-> RDiv(RMul(fault_current, r.lo), k_factor),
              hi |-> RDiv(RMul(fault_current, r.hi), k_factor)]

\* a voltage drop that stays in millivolts
voltage_drop_in_millivolts(mv_per_amp_per_meter, current, length) ==
    RMul(RMul(mv_per_amp_per_meter, current), length)

\* a percentage drop left as a fraction
percentage_drop_as_fraction(voltage_drop, nominal_voltage) ==
    RDiv(voltage_drop, nominal_voltage)

\* src/bin/earthing_conductor.rs:47 (and garage_earth.rs:47); the result is an
\* enclosure because of the square root
calculate_conductor_size(fault_current, fault_duration, k_factor) ==
    LET r == Sqrt(fault_duration)
        a == RDiv(RMul(fault_current, r.lo), k_factor)
        b == RDiv(RMul(fault_current, r.hi), k_factor)
    IN  IF IsFinite(a) /\ IsFinite(b)
        THEN [lo |-> RMin(a, b), hi |-> RMax(a, b)]
        ELSE [lo |-> a, hi |-> b]

calculate_voltage_drop(mv_per_amp_per_meter, current, length) ==
    RDiv(RMul(RMul(mv_per_amp_per_meter, current), length), RInt(1000))

calculate_percentage_drop(voltage_drop, nominal_voltage) ==
    RMul(RDiv(voltage_drop, nominal_voltage), RInt(100))

\* ------------------------------------------------------------------ text

DigitChar(d) == <<"0", "1", "2", "3", "4", "5", "6", "7", "8", "9">>[d + 1]

RECURSIVE NatChars(_)
NatChars(n) == IF n < 10 THEN <<DigitChar(n)>> ELSE NatChars(n \div 10) \o <<DigitChar(n % 10)>>

\* h hundredths as "i.ff", with the sign of the value that was rounded
HundredthsChars(neg, h) ==
    (IF neg THEN <<"-">> ELSE <<>>)
        \o NatChars(h \div 100) \o <<".", DigitChar((h % 100) \div 10), DigitChar(h % 10)>>

\* the nearest hundredths of a finite x, the lower one on a boundary ...
RoundLo(x) == -((x[2] - 200 * x[1]) \div (2 * x[2]))

\* ... and the upper one on a boundary
RoundHi(x) == (200 * x[1] + x[2]) \div (2 * x[2])

\* format!("{:.2}", v) for an f64 known to lie in [lo, hi]: every text the
\* build can print (one text unless a rounding boundary lies in [lo, hi])
Fmt2Set(lo, hi) ==
    IF ~IsFinite(lo) \/ ~IsFinite(hi)
    THEN {IF lo[1] = 0 \/ hi[1] = 0 THEN <<"N", "a", "N">>
          ELSE IF lo[1] > 0 THEN <<"i", "n", "f">> ELSE <<"-", "i", "n", "f">>}
    ELSE {HundredthsChars(h < 0 \/ (h = 0 /\ lo[1] < 0), Abs(h)) : h \in RoundLo(lo)..RoundHi(hi)}

IsPrefix(p, s) == Len(p) <= Len(s) /\ SubSeq(s, 1, Len(p)) = p

Drop(s, n) == SubSeq(s, n + 1, Len(s))

\* str::replacen(from, to, 1): the first match only
RECURSIVE replace_first_only(_, _, _)
replace_first_only(s, from, to) ==
    IF Len(s) < Len(from) THEN s
    ELSE IF IsPrefix(from, s) THEN to \o Drop(s, Len(from))
    ELSE <<Head(s)>> \o replace_first_only(Tail(s), from, to)

\* str::replace(from, to): every non-overlapping match, left to right
RECURSIVE replace(_, _, _)
replace(s, from, to) ==
    IF Len(s) < Len(from) THEN s
    ELSE IF IsPrefix(from, s) THEN to \o replace(Drop(s, Len(from)), from, to)
    ELSE <<Head(s)>> \o replace(Tail(s), from, to)

\* the number of non-overlapping matches of pat in s (str::matches(pat).count())
RECURSIVE Matches(_, _)
Matches(s, pat) ==
    IF Len(s) < Len(pat) THEN 0
    ELSE IF IsPrefix(pat, s) THEN 1 + Matches(Drop(s, Len(pat)), pat)
    ELSE Matches(Tail(s), pat)

\* pat occurs in s at some position (str::contains)
Contains(s, pat) == \E i \in 1..(Len(s) - Len(pat) + 1) : SubSeq(s, i, i + Len(pat) - 1) = pat

\* ---------------------------------------------------------- the programs

VARIABLES
    prog,              \* the program this process runs
    succeeded,         \* whether a run before this one returned from main (status 0)
    run,               \* the number of the run (runs of a program follow one another)
    argv,              \* the command line of the run
    pc,                \* the position of the run in main
    args,              \* garage_supply: the parsed Args
    console,           \* stdout: the number of println! calls of the report made so far
    stderr,            \* stderr: the diagnostics printed so far
    fs,                \* the file system: for each path, whether the file exists and its text
    fs0,               \* the file system as it was when the run began
    markdown_template, \* generate_markdown: the text read from the template
    markdown_content,  \* main: the String generate_markdown returned
    events,            \* the file operations of the run, in order
    exit_code,         \* the exit status, meaningful once pc = "exit"
    call               \* the formula call made in the calculation specification

vars == <<prog, succeeded, run, argv, pc, args, console, stderr, fs, fs0, markdown_template,
          markdown_content, events, exit_code, call>>

Programs == {"garage_earth", "garage_supply", "earthing_conductor"}

TemplatePrograms == {"garage_earth", "garage_supply"}

\* the fixed relative path each program writes (and, for the first two, reads)
MdPath(p) ==
    CASE p = "garage_earth" -> "src/bin/garage_earth.md"
      [] p = "garage_supply" -> "src/bin/garage_supply.md"
      [] p = "earthing_conductor" -> "src/bin/earthing_conductor.md"

Paths == {MdPath(p) : p \in Programs}

\* the placeholder tokens, as characters
Tok == <<"{", ":", ".", "2", "}">>

TokV == Tok \o <<"V">>

TokP == Tok \o <<"%">>

\* the number of runs modelled
MaxRuns == 2

\* the number of fragments a template is put together from
MaxFrags == 2

\* what a template is built from: whole tokens, pieces of tokens, other text
Fragments == {TokV, TokP, Tok, <<"{", ":", ".">>, <<"2", "}">>, <<"V">>, <<"x">>}

RECURSIVE TemplatesUpTo(_)
TemplatesUpTo(n) ==
    IF n = 0 THEN {<<>>}
    ELSE LET shorter == TemplatesUpTo(n - 1)
         IN  shorter \cup {t \o f : t \in shorter, f \in Fragments}

Templates == TemplatesUpTo(MaxFrags)

Absent == [exists |-> FALSE, data |-> <<>>]

File(text) == [exists |-> TRUE, data |-> text]

\* the process exit status of a panic, and of a command line clap rejects
PanicStatus == 101

UsageStatus == 2

\* #[arg(short, long, default_value_t = 45.0)]
DefaultLength == 45

\* the lengths given with --length
Lengths == {10, 46}

\* the command lines of garage_supply: no flag, --length L, one clap rejects
NoArgv == [kind |-> "none", length |-> 0]

Argv == {NoArgv, [kind |-> "rejected", length |-> 0]}
            \cup {[kind |-> "length", length |-> l] : l \in Lengths}

\* the command lines program p is started with (only garage_supply reads its own)
CommandLines(p) == IF p = "garage_supply" THEN Argv ELSE {NoArgv}

NoArgs == [length |-> RInt(0)]

NoCall == [fn |-> "none", args |-> <<>>]

Line(fmt, a) == [fmt |-> fmt, args |-> a]

\* MaterialConstants::default()
MaterialConstants == [copper |-> RInt(143), aluminum |-> RInt(95), steel |-> RInt(52)]

\* garage_earth main: the println! calls, in order
GarageEarthReport ==
    LET materials == MaterialConstants
        fault_current == RInt(580)
        fault_duration == RInt(5)
        copper_size == calculate_conductor_size(fault_current, fault_duration, materials.copper)
    IN  << Line("Earthing Conductor Size Calculator", <<>>),
           Line("=================================", <<>>),
           Line("Protective Device: 100A BS 88-3 C Fuse", <<>>),
           Line("Fault Current: {} A", <<fault_current>>),
           Line("Fault Duration: {} s", <<fault_duration>>),
           Line("\nRequired Conductor Size:", <<>>),
           Line("Copper: {:.2} mm2", <<copper_size>>) >>

\* earthing_conductor main: the println! calls, in order
EarthingConductorReport ==
    LET materials == MaterialConstants
        fault_current == RInt(580)
        fault_duration == RInt(5)
        copper_size == calculate_conductor_size(fault_current, fault_duration, materials.copper)
        aluminum_size == calculate_conductor_size(fault_current, fault_duration, materials.aluminum)
        steel_size == calculate_conductor_size(fault_current, fault_duration, materials.steel)
        mv_per_amp_per_meter == Rat(44, 10)
        length == RInt(40)
        nominal_voltage == RInt(230)
        max_current == RInt(64)
        voltage_drop_max == calculate_voltage_drop(mv_per_amp_per_meter, max_current, length)
        percentage_drop_max == calculate_percentage_drop(voltage_drop_max, nominal_voltage)
        half_current == RDiv(max_current, RInt(2))
        voltage_drop_half == calculate_voltage_drop(mv_per_amp_per_meter, half_current, length)
        percentage_drop_half == calculate_percentage_drop(voltage_drop_half, nominal_voltage)
    IN  << Line("Earthing Conductor Size Calculator", <<>>),
           Line("=================================", <<>>),
           Line("Protective Device: 100A BS 88-3 C Fuse", <<>>),
           Line("Fault Current: {} A", <<fault_current>>),
           Line("Fault Duration: {} s", <<fault_duration>>),
           Line("\nRequired Conductor Sizes:", <<>>),
           Line("Copper: {:.2} mm2", <<copper_size>>),
           Line("Aluminum: {:.2} mm2", <<aluminum_size>>),
           Line("Steel: {:.2} mm2", <<steel_size>>),
           Line("\nVoltage Drop Calculator", <<>>),
           Line("=====================", <<>>),
           Line("Cable: 2-core SWA 10mm2", <<>>),
           Line("Length: 40m", <<>>),
           Line("Nominal Voltage: 230V", <<>>),
           Line("\nAt maximum current ({}A):", <<max_current>>),
           Line("Voltage drop: {:.2}V", <<voltage_drop_max>>),
           Line("Percentage drop: {:.2}%", <<percentage_drop_max>>),
           Line("\nAt 50% load ({}A):", <<half_current>>),
           Line("Voltage drop: {:.2}V", <<voltage_drop_half>>),
           Line("Percentage drop: {:.2}%", <<percentage_drop_half>>),
           Line("\nNote: BS 7671 recommends:", <<>>),
           Line("- Maximum 3% voltage drop for lighting circuits", <<>>),
           Line("- Maximum 5% voltage drop for other circuits", <<>>) >>

\* garage_supply main: the currents of every table
Currents == <<RInt(32), RInt(40), RInt(50)>>

RowFormat == "| {}A | {:.2}V | {:.2}% | {:.2}W | {:.2}kWh | GBP{:.2} | GBP{:.2} | GBP{:.2} |"

TableHead ==
    << Line("\n| Current | Voltage Drop | % Drop | Power Loss | Yearly Loss | Cosy Cost | Go Cost | Investment |", <<>>),
       Line("|---------|-------------|---------|------------|-------------|-----------|---------|------------|", <<>>) >>

\* garage_supply main, the body of the 10mm loop: one table row
BaseRow(mv_per_amp_per_meter_10mm, current, length) ==
    LET voltage_drop == calculate_voltage_drop(mv_per_amp_per_meter_10mm, current, length)
        percentage_drop == calculate_percentage_drop(voltage_drop, RInt(230))
        power_loss == RMul(voltage_drop, current)
        yearly_power_loss == RDiv(RMul(RMul(power_loss, RInt(4)), RInt(365)), RInt(1000))
        cosy_cost == RMul(yearly_power_loss, Rat(1414, 10000))
        go_cost == RMul(yearly_power_loss, Rat(85, 1000))
        investment == RInt(0)
    IN  Line(RowFormat, <<current, voltage_drop, percentage_drop, power_loss,
                          yearly_power_loss, cosy_cost, go_cost, investment>>)

\* a 16mm or 25mm row whose investment figure compares the Go costs
UpgradeRowComparingGoCost(mv_per_amp_per_meter, mv_per_amp_per_meter_10mm, current, length) ==
    LET voltage_drop == calculate_voltage_drop(mv_per_amp_per_meter, current, length)
        percentage_drop == calculate_percentage_drop(voltage_drop, RInt(230))
        power_loss == RMul(voltage_drop, current)
        yearly_power_loss == RDiv(RMul(RMul(power_loss, RInt(4)), RInt(365)), RInt(1000))
        cosy_cost == RMul(yearly_power_loss, Rat(1414, 10000))
        go_cost == RMul(yearly_power_loss, Rat(85, 1000))
        voltage_drop_10mm == calculate_voltage_drop(mv_per_amp_per_meter_10mm, current, length)
        power_loss_10mm == RMul(voltage_drop_10mm, current)
        yearly_power_loss_10mm ==
            RDiv(RMul(RMul(power_loss_10mm, RInt(4)), RInt(365)), RInt(1000))
        go_cost_10mm == RMul(yearly_power_loss_10mm, Rat(85, 1000))
        investment == RSub(go_cost_10mm, go_cost)
    IN  Line(RowFormat, <<current, voltage_drop, percentage_drop, power_loss,
                          yearly_power_loss, cosy_cost, go_cost, investment>>)

\* garage_supply main, the body of the 16mm and of the 25mm loop: one table row
UpgradeRow(mv_per_amp_per_meter, mv_per_amp_per_meter_10mm, current, length) ==
    LET voltage_drop == calculate_voltage_drop(mv_per_amp_per_meter, current, length)
        percentage_drop == calculate_percentage_drop(voltage_drop, RInt(230))
        power_loss == RMul(voltage_drop, current)
        yearly_power_loss == RDiv(RMul(RMul(power_loss, RInt(4)), RInt(365)), RInt(1000))
        cosy_cost == RMul(yearly_power_loss, Rat(1414, 10000))
        go_cost == RMul(yearly_power_loss, Rat(85, 1000))
        voltage_drop_10mm == calculate_voltage_drop(mv_per_amp_per_meter_10mm, current, length)
        power_loss_10mm == RMul(voltage_drop_10mm, current)
        yearly_power_loss_10mm ==
            RDiv(RMul(RMul(power_loss_10mm, RInt(4)), RInt(365)), RInt(1000))
        cosy_cost_10mm == RMul(yearly_power_loss_10mm, Rat(1414, 10000))
        investment == RSub(cosy_cost_10mm, cosy_cost)
    IN  Line(RowFormat, <<current, voltage_drop, percentage_drop, power_loss,
                          yearly_power_loss, cosy_cost, go_cost, investment>>)

\* garage_supply main: the println! calls, in order
GarageSupplyReport(length) ==
    LET mv_per_amp_per_meter_10mm == Rat(47, 10)
        mv_per_amp_per_meter_16mm == Rat(29, 10)
        mv_per_amp_per_meter_25mm == Rat(19, 10)
    IN  << Line("Garage Supply Cable Calculator", <<>>),
           Line("=============================", <<>>),
           Line("Cable Length: {}m", <<length>>),
           Line("Nominal Voltage: 230V", <<>>),
           Line("\n10mm2 Cable (mV/A/m = 4.7):", <<>>),
           Line("Maximum Current Capacity: 71A (Reference Method D (buried))", <<>>) >>
        \o TableHead
        \o [i \in 1..3 |-> BaseRow(mv_per_amp_per_meter_10mm, Currents[i], length)]
        \o << Line("\n16mm2 Cable (mV/A/m = 2.9):", <<>>),
              Line("Maximum Current Capacity: 91A (Reference Method D (buried))", <<>>) >>
        \o TableHead
        \o [i \in 1..3 |-> UpgradeRow(mv_per_amp_per_meter_16mm, mv_per_amp_per_meter_10mm,
                                      Currents[i], length)]
        \o << Line("\n25mm2 Cable (mV/A/m = 1.9):", <<>>),
              Line("Maximum Current Capacity: 116A (Reference Method D (buried))", <<>>) >>
        \o TableHead
        \o [i \in 1..3 |-> UpgradeRow(mv_per_amp_per_meter_25mm, mv_per_amp_per_meter_10mm,
                                      Currents[i], length)]
        \o << Line("\nNote: BS 7671 recommends:", <<>>),
              Line("- Maximum 3% voltage drop for lighting circuits", <<>>),
              Line("- Maximum 5% voltage drop for other circuits", <<>>) >>

\* the console report of program p
Report(p, a) ==
    CASE p = "garage_earth" -> GarageEarthReport
      [] p = "garage_supply" -> GarageSupplyReport(a.length)
      [] p = "earthing_conductor" -> EarthingConductorReport

\* the lines on stdout: the first `console` println! calls of the report
ConsoleLines == SubSeq(Report(prog, args), 1, console)

\* ------------------------------------------------------ generate_markdown

\* every sequence that takes its i-th element from the i-th set
RECURSIVE SeqProduct(_)
SeqProduct(sets) ==
    IF sets = <<>> THEN {<<>>}
    ELSE {<<h>> \o t : h \in Head(sets), t \in SeqProduct(Tail(sets))}

\* garage_earth generate_markdown, lines 100-104: the value substituted
CopperSize ==
    LET materials == MaterialConstants
        fault_current == RInt(580)
        fault_duration == RInt(5)
    IN  calculate_conductor_size(fault_current, fault_duration, materials.copper)

\* garage_earth generate_markdown, line 111: the texts the replace can produce
GarageEarthSubstitute(template) ==
    {replace(template, Tok, t) : t \in Fmt2Set(CopperSize.lo, CopperSize.hi)}

\* garage_supply generate_markdown, lines 49-51: mV/A/m of 10mm, 16mm, 25mm
Ratings == <<Rat(47, 10), Rat(29, 10), Rat(19, 10)>>

\* garage_supply generate_markdown, lines 59-99: voltage drop k of nine, in the
\* order 32A/10mm, 40A/10mm, 50A/10mm, 32A/16mm, ..., 50A/25mm
VoltageDrop(k, length) ==
    calculate_voltage_drop(Ratings[((k - 1) \div 3) + 1], Currents[((k - 1) % 3) + 1], length)

PercentageDrop(k, length) ==
    LET nominal_voltage == RInt(230)
    IN  calculate_percentage_drop(VoltageDrop(k, length), nominal_voltage)

\* garage_supply generate_markdown, lines 106-124: the eighteen replace calls in
\* order, for every way the eighteen format! calls can come out
ReplaceCalls(length) ==
    LET texts == [i \in 1..18 |->
                    IF i % 2 = 1
                    THEN LET v == VoltageDrop((i + 1) \div 2, length)
                         IN  {[from |-> TokV, to |-> t \o <<"V">>] : t \in Fmt2Set(v, v)}
                    ELSE LET q == PercentageDrop(i \div 2, length)
                         IN  {[from |-> TokP, to |-> t \o <<"%">>] : t \in Fmt2Set(q, q)}]
    IN  SeqProduct(texts)

\* the text after the first n calls of the chain
RECURSIVE ApplyCalls(_, _, _)
ApplyCalls(text, calls, n) ==
    IF n = 0 THEN text
    ELSE replace(ApplyCalls(text, calls, n - 1), calls[n].from, calls[n].to)

\* a generate_markdown that computes with the default length whatever it is given
GarageSupplySubstituteDefaultLength(template, length) ==
    {ApplyCalls(template, calls, Len(calls)) : calls \in ReplaceCalls(RInt(45))}

\* garage_supply generate_markdown, lines 106-124: the texts the chain can produce
GarageSupplySubstitute(template, length) ==
    {ApplyCalls(template, calls, Len(calls)) : calls \in ReplaceCalls(length)}

\* arguments of a report whose closing note quotes the half-load percentage
EarthingConductorArgumentsNoteAtHalfLoad ==
    LET mv_per_amp_per_meter == Rat(44, 10)
        length == RInt(40)
        nominal_voltage == RInt(230)
        max_current == RInt(64)
        half_current == RDiv(max_current, RInt(2))
        voltage_drop_max == calculate_voltage_drop(mv_per_amp_per_meter, max_current, length)
        percentage_drop_max == calculate_percentage_drop(voltage_drop_max, nominal_voltage)
        voltage_drop_half == calculate_voltage_drop(mv_per_amp_per_meter, half_current, length)
        percentage_drop_half == calculate_percentage_drop(voltage_drop_half, nominal_voltage)
    IN  <<voltage_drop_max, voltage_drop_max, percentage_drop_max,
          voltage_drop_half, voltage_drop_half, percentage_drop_half,
          percentage_drop_half>>

\* earthing_conductor generate_markdown, lines 116-126 and 224-230: the values
\* computed, in the order the format! takes them
EarthingConductorArguments ==
    LET mv_per_amp_per_meter == Rat(44, 10)
        length == RInt(40)
        nominal_voltage == RInt(230)
        max_current == RInt(64)
        half_current == RDiv(max_current, RInt(2))
        voltage_drop_max == calculate_voltage_drop(mv_per_amp_per_meter, max_current, length)
        percentage_drop_max == calculate_percentage_drop(voltage_drop_max, nominal_voltage)
        voltage_drop_half == calculate_voltage_drop(mv_per_amp_per_meter, half_current, length)
        percentage_drop_half == calculate_percentage_drop(voltage_drop_half, nominal_voltage)
    IN  <<voltage_drop_max, voltage_drop_max, percentage_drop_max,
          voltage_drop_half, voltage_drop_half, percentage_drop_half,
          percentage_drop_max>>

\* earthing_conductor generate_markdown: the format! of the report, its literal
\* text in seven pieces around the seven arguments
EarthingConductorMarkdown ==
    LET arguments == EarthingConductorArguments
    IN  {   <<"# Earthing Conductor (UK Standards) [...] 1. At maximum current (Method C rating of 64A):\n   - Voltage drop = 4.4 x 64 x 40 / 1000\n   - Voltage drop = ">>
         \o t[1] \o <<"V\n   - Percentage drop = (">>
         \o t[2] \o <<"/230) x 100 = ">>
         \o t[3] \o <<"%\n\n2. At 50% load (32A):\n   - Voltage drop = 4.4 x 32 x 40 / 1000\n   - Voltage drop = ">>
         \o t[4] \o <<"V\n   - Percentage drop = (">>
         \o t[5] \o <<"/230) x 100 = ">>
         \o t[6] \o <<"%\n\nNote: BS 7671 recommends [...] the voltage drop at maximum current (">>
         \o t[7] \o <<"%) is within the acceptable range for power circuits but exceeds the recommended limit for lighting circuits.\n">>
         : t \in SeqProduct([i \in 1..7 |-> Fmt2Set(arguments[i], arguments[i])]) }

\* ------------------------------------------------------------ the actions

StartPc(p) == IF p = "garage_supply" THEN "parse" ELSE "report"

Init ==
    /\ prog \in Programs
    /\ run = 1
    /\ argv \in CommandLines(prog)
    /\ pc = StartPc(prog)
    /\ args = NoArgs
    /\ console = 0
    /\ stderr = <<>>
    /\ \E own \in {Absent} \cup {File(t) : t \in Templates} :
          fs = [q \in Paths |-> IF q = MdPath(prog) THEN own ELSE Absent]
    /\ fs0 = fs
    /\ markdown_template = <<>>
    /\ markdown_content = <<>>
    /\ events = <<>>
    /\ exit_code = 0
    /\ call = NoCall
    /\ succeeded = FALSE

\* a panic: the message on stderr, the process ends with status 101
Panic(message) ==
    /\ stderr' = Append(stderr, message)
    /\ exit_code' = PanicStatus
    /\ pc' = "exit"

\* a report whose println! failures are ignored: the run goes on to the template
PrintReportIgnoringErrors ==
    /\ pc = "report"
    /\ \E last \in {Len(Report(prog, args))} :
          \E n \in 0..last : console' = n
    /\ pc' = IF prog \in TemplatePrograms THEN "read" ELSE "format"
    /\ UNCHANGED <<prog, succeeded, run, argv, args, stderr, exit_code, fs, fs0, markdown_template,
                   markdown_content, events, call>>

\* a read whose failure is replaced by an empty template (unwrap_or_default)
ReadTemplateOrDefault ==
    /\ pc = "read"
    /\ \E ok \in BOOLEAN :
          /\ ok => fs[MdPath(prog)].exists
          /\ markdown_template' = IF ok THEN fs[MdPath(prog)].data ELSE <<>>
          /\ events' = Append(events, IF ok THEN "read_ok" ELSE "read_err")
    /\ pc' = "substitute"
    /\ UNCHANGED <<prog, succeeded, run, argv, args, console, stderr, exit_code, fs, fs0,
                   markdown_content, call>>

\* a write that is tried a second time when it fails
WriteMarkdownWithRetry ==
    /\ pc = "write"
    /\ \E ok \in BOOLEAN :
          IF ok
          THEN /\ fs' = [fs EXCEPT ![MdPath(prog)] = File(markdown_content)]
               /\ events' = Append(events, "write_ok")
               /\ exit_code' = 0
               /\ pc' = "exit"
               /\ UNCHANGED stderr
          ELSE /\ events' = Append(events, "write_err")
               /\ IF Len(events) < 2
                  THEN UNCHANGED <<fs, pc, stderr, exit_code>>
                  ELSE UNCHANGED fs /\ Panic("Failed to write markdown file")
    /\ UNCHANGED <<prog, succeeded, run, argv, args, console, fs0, markdown_template,
                   markdown_content, call>>

\* a write whose failure is dropped (let _ = fs::write(..)): main returns normally
WriteMarkdownIgnoringError ==
    /\ pc = "write"
    /\ \E ok \in BOOLEAN :
          /\ IF ok
             THEN /\ fs' = [fs EXCEPT ![MdPath(prog)] = File(markdown_content)]
                  /\ events' = Append(events, "write_ok")
             ELSE /\ UNCHANGED fs
                  /\ events' = Append(events, "write_err")
          /\ exit_code' = 0
          /\ pc' = "exit"
          /\ UNCHANGED stderr
    /\ UNCHANGED <<prog, succeeded, run, argv, args, console, fs0, markdown_template,
                   markdown_content, call>>

\* garage_supply main, line 128: Args::parse(). clap ends the process with its
\* usage status when it rejects the command line
ParseArgs ==
    /\ pc = "parse"
    /\ CASE argv.kind = "none" ->
              /\ args' = [length |-> RInt(DefaultLength)]
              /\ pc' = "report"
              /\ UNCHANGED <<stderr, exit_code>>
         [] argv.kind = "length" ->
              /\ args' = [length |-> RInt(argv.length)]
              /\ pc' = "report"
              /\ UNCHANGED <<stderr, exit_code>>
         [] argv.kind = "rejected" ->
              /\ stderr' = Append(stderr, "error: invalid value for '--length <LENGTH>'")
              /\ exit_code' = UsageStatus
              /\ pc' = "exit"
              /\ UNCHANGED args
    /\ UNCHANGED <<prog, succeeded, run, argv, console, fs, fs0, markdown_template, markdown_content,
                   events, call>>

\* main, the println! calls up to "Generate and write markdown file": the first
\* n lines reach stdout; println! panics at the first line stdout refuses
PrintReport ==
    /\ pc = "report"
    /\ \E last \in {Len(Report(prog, args))} :
          \E n \in 0..last :
              /\ console' = n
              /\ IF n = last
                 THEN /\ pc' = IF prog \in TemplatePrograms THEN "read" ELSE "format"
                      /\ UNCHANGED <<stderr, exit_code>>
                 ELSE Panic("failed printing to stdout")
    /\ UNCHANGED <<prog, succeeded, run, argv, args, fs, fs0, markdown_template, markdown_content,
                   events, call>>

\* generate_markdown of garage_earth (107-108) and garage_supply (102-103):
\* read_to_string(..).expect(..). A file that does not exist cannot be read; one
\* that exists may still not be readable
ReadTemplate ==
    /\ pc = "read"
    /\ \E ok \in BOOLEAN :
          /\ ok => fs[MdPath(prog)].exists
          /\ IF ok
             THEN /\ markdown_template' = fs[MdPath(prog)].data
                  /\ events' = Append(events, "read_ok")
                  /\ pc' = "substitute"
                  /\ UNCHANGED <<stderr, exit_code>>
             ELSE /\ events' = Append(events, "read_err")
                  /\ Panic("Failed to read markdown template")
                  /\ UNCHANGED markdown_template
    /\ UNCHANGED <<prog, succeeded, run, argv, args, console, fs, fs0, markdown_content, call>>

\* generate_markdown of garage_earth (111) and garage_supply (106-124): the
\* replace chain; its result is the String main receives
Substitute ==
    /\ pc = "substitute"
    /\ markdown_content' \in
          IF prog = "garage_earth"
          THEN GarageEarthSubstitute(markdown_template)
          ELSE GarageSupplySubstitute(markdown_template, args.length)
    /\ pc' = "write"
    /\ UNCHANGED <<prog, succeeded, run, argv, args, console, stderr, fs, fs0, markdown_template,
                   events, exit_code, call>>

\* a generate_markdown that keeps the report already on disk when there is one
FormatMarkdownKeepingExisting ==
    /\ pc = "format"
    /\ markdown_content' \in IF fs[MdPath(prog)].exists
                             THEN {fs[MdPath(prog)].data}
                             ELSE EarthingConductorMarkdown
    /\ pc' = "write"
    /\ UNCHANGED <<prog, succeeded, run, argv, args, console, stderr, fs, fs0, markdown_template,
                   events, exit_code, call>>

\* generate_markdown of earthing_conductor (107-232): no file is read
FormatMarkdown ==
    /\ pc = "format"
    /\ markdown_content' \in EarthingConductorMarkdown
    /\ pc' = "write"
    /\ UNCHANGED <<prog, succeeded, run, argv, args, console, stderr, fs, fs0, markdown_template,
                   events, exit_code, call>>

\* main: std::fs::write(path, markdown_content).expect(..), then the return
\* from main. fs::write creates or truncates the file and then writes: when it
\* fails the file is as it was (it could not be opened) or is left empty (it
\* was truncated and the text could not be written)
WriteMarkdown ==
    /\ pc = "write"
    /\ \E ok \in BOOLEAN :
          IF ok
          THEN /\ fs' = [fs EXCEPT ![MdPath(prog)] = File(markdown_content)]
               /\ events' = Append(events, "write_ok")
               /\ exit_code' = 0
               /\ pc' = "exit"
               /\ UNCHANGED stderr
          ELSE /\ \/ UNCHANGED fs
                  \/ fs' = [fs EXCEPT ![MdPath(prog)] = File(<<>>)]
               /\ events' = Append(events, "write_err")
               /\ Panic("Failed to write markdown file")
    /\ UNCHANGED <<prog, succeeded, run, argv, args, console, fs0, markdown_template,
                   markdown_content, call>>

\* the program is started again
NextRun ==
    /\ pc = "exit"
    /\ run < MaxRuns
    /\ run' = run + 1
    /\ argv' \in CommandLines(prog)
    /\ pc' = StartPc(prog)
    /\ args' = NoArgs
    /\ console' = 0
    /\ stderr' = <<>>
    /\ fs0' = fs
    /\ markdown_template' = <<>>
    /\ markdown_content' = <<>>
    /\ events' = <<>>
    /\ exit_code' = 0
    /\ succeeded' = (succeeded \/ exit_code = 0)
    /\ UNCHANGED <<prog, fs, call>>

Next ==
    \/ ParseArgs
    \/ PrintReport
    \/ ReadTemplate
    \/ Substitute
    \/ FormatMarkdown
    \/ WriteMarkdown
    \/ NextRun

Spec == Init /\ [][Next]_vars

\* ------------------------------------------- the formulas, called directly

\* the inputs the formulas are called with: those of the programs and of the
\* unit tests, and others around them
FaultCurrents == {RInt(100), RInt(580), RInt(1000)}

FaultDurations == {RInt(1), RInt(4), RInt(5), RInt(9)}

KFactors == {RInt(143), RInt(95), RInt(52), RInt(0), RInt(-143)}

MvRatings == {Rat(19, 10), Rat(29, 10), Rat(44, 10), Rat(47, 10)}

LoadCurrents == {RInt(32), RInt(40), RInt(50), RInt(64)}

CableLengths == {RInt(1), RInt(40), RInt(45), RInt(46)}

VoltageDrops == {RInt(0), Rat(1126, 100), Rat(677, 100), Rat(11264, 1000), Rat(6768, 1000)}

NominalVoltages == {RInt(230), RInt(240), RInt(0)}

InitCalc ==
    /\ prog = "none"
    /\ run = 1
    /\ argv = NoArgv
    /\ pc = "calc"
    /\ args = NoArgs
    /\ console = 0
    /\ stderr = <<>>
    /\ fs = [q \in Paths |-> Absent]
    /\ fs0 = fs
    /\ markdown_template = <<>>
    /\ markdown_content = <<>>
    /\ events = <<>>
    /\ exit_code = 0
    /\ call = NoCall
    /\ succeeded = FALSE

Unused == <<prog, succeeded, run, argv, pc, args, console, stderr, fs, fs0, markdown_template,
            markdown_content, events, exit_code>>

CallConductorSize ==
    /\ pc = "calc"
    /\ \E fault_current \in FaultCurrents, fault_duration \in FaultDurations,
          k_factor \in KFactors :
          call' = [fn |-> "calculate_conductor_size",
                   args |-> <<fault_current, fault_duration, k_factor>>,
                   result |-> calculate_conductor_size(fault_current, fault_duration, k_factor)]
    /\ UNCHANGED Unused

CallVoltageDrop ==
    /\ pc = "calc"
    /\ \E mv_per_amp_per_meter \in MvRatings, current \in LoadCurrents,
          length \in CableLengths :
          call' = [fn |-> "calculate_voltage_drop",
                   args |-> <<mv_per_amp_per_meter, current, length>>,
                   result |-> calculate_voltage_drop(mv_per_amp_per_meter, current, length)]
    /\ UNCHANGED Unused

CallPercentageDrop ==
    /\ pc = "calc"
    /\ \E voltage_drop \in VoltageDrops, nominal_voltage \in NominalVoltages :
          call' = [fn |-> "calculate_percentage_drop",
                   args |-> <<voltage_drop, nominal_voltage>>,
                   result |-> calculate_percentage_drop(voltage_drop, nominal_voltage)]
    /\ UNCHANGED Unused

NextCalc ==
    \/ CallConductorSize
    \/ CallVoltageDrop
    \/ CallPercentageDrop

SpecCalc == InitCalc /\ [][NextCalc]_vars

\* ------------------------------------------------------------- the claims

\* the tolerance of the unit tests, 0.01, less a margin of 10^-6 that covers the
\* rounding error of the f64 operations (below 10^-12 for these magnitudes)
Tolerance == RSub(Rat(1, 100), Rat(1, 1000000))

\* C8: for positive inputs the result of calculate_conductor_size encloses
\* fault_current * sqrt(fault_duration) / k_factor: scaled back by
\* k_factor / fault_current, its lower end squared is at most fault_duration and
\* its upper end squared at least fault_duration, and the two ends are less than
\* fault_current / k_factor * 10^-4 apart; for (580, 5, 143) both ends are within
\* 0.01 of 9.07.
C8_ConductorSize ==
    (call.fn = "calculate_conductor_size" /\ call.args[3][1] > 0) =>
        LET fault_current == call.args[1]
            fault_duration == call.args[2]
            k_factor == call.args[3]
            lo == RDiv(RMul(call.result.lo, k_factor), fault_current)
            hi == RDiv(RMul(call.result.hi, k_factor), fault_current)
        IN  /\ RLe(<<0, 1>>, lo)
            /\ RLe(RMul(lo, lo), fault_duration)
            /\ RLe(fault_duration, RMul(hi, hi))
            /\ RLe(RSub(hi, lo), Rat(1, 10000))
            /\ call.args = <<RInt(580), RInt(5), RInt(143)>> =>
                  /\ Within(call.result.lo, Rat(907, 100), Tolerance)
                  /\ Within(call.result.hi, Rat(907, 100), Tolerance)

C8_Witness ==
    /\ call.fn = "calculate_conductor_size"
    /\ call.args = <<RInt(580), RInt(5), RInt(143)>>
    /\ Fmt2Set(call.result.lo, call.result.hi) = {<<"9", ".", "0", "7">>}

\* C9: the result of calculate_voltage_drop times 1000 is rating * current *
\* length; for (4.4, 64, 40) it is within 0.01 of 11.26 and for (4.7, 32, 45)
\* within 0.01 of 6.77.
C9_VoltageDrop ==
    call.fn = "calculate_voltage_drop" =>
        LET rating == call.args[1]
            current == call.args[2]
            length == call.args[3]
        IN  /\ call.result[1] * 1000 * rating[2] * current[2] * length[2]
                  = call.result[2] * rating[1] * current[1] * length[1]
            /\ call.args = <<Rat(44, 10), RInt(64), RInt(40)>> =>
                  Within(call.result, Rat(1126, 100), Tolerance)
            /\ call.args = <<Rat(47, 10), RInt(32), RInt(45)>> =>
                  Within(call.result, Rat(677, 100), Tolerance)

C9_Witness ==
    /\ call.fn = "calculate_voltage_drop"
    /\ call.args = <<Rat(44, 10), RInt(64), RInt(40)>>
    /\ call.result = Rat(11264, 1000)

\* C10: the result of calculate_percentage_drop times the nominal voltage is the
\* drop times 100 (for a nominal voltage of zero the result is not finite); for
\* (11.26, 230) it is within 0.01 of 4.9, and for (6.77, 230) and for the drop
\* of (4.7, 32, 45), 6.768 V, at 230 V it is within 0.01 of 2.94.
C10_PercentageDrop ==
    call.fn = "calculate_percentage_drop" =>
        LET drop == call.args[1]
            nominal == call.args[2]
        IN  /\ IF nominal[1] = 0
               THEN ~IsFinite(call.result)
               ELSE call.result[1] * nominal[1] * drop[2]
                        = call.result[2] * drop[1] * 100 * nominal[2]
            /\ call.args = <<Rat(1126, 100), RInt(230)>> =>
                  Within(call.result, Rat(49, 10), Tolerance)
            /\ call.args \in {<<Rat(677, 100), RInt(230)>>,
                              <<calculate_voltage_drop(Rat(47, 10), RInt(32), RInt(45)), RInt(230)>>} =>
                  Within(call.result, Rat(294, 100), Tolerance)

C10_Witness ==
    /\ call.fn = "calculate_percentage_drop"
    /\ call.args = <<Rat(6768, 1000), RInt(230)>>
    /\ Fmt2Set(call.result, call.result) = {<<"2", ".", "9", "4">>}

\* the file operations of the run
Happened(e) == \E i \in 1..Len(events) : events[i] = e

Reads == {i \in 1..Len(events) : events[i] \in {"read_ok", "read_err"}}

Writes == {i \in 1..Len(events) : events[i] \in {"write_ok", "write_err"}}

\* the length garage_supply is asked to use: that of the flag, 45 without one
LengthInEffect == IF argv.kind = "length" THEN argv.length ELSE 45

\* the text the spec describes for garage_supply: the i-th "{:.2}V" and the j-th
\* "{:.2}%" of the template, counted from i and j, replaced by the i-th and the
\* j-th value requested for that token (calls 2i-1 and 2j of the chain)
RECURSIVE SubstituteInOrder(_, _, _, _)
SubstituteInOrder(s, calls, i, j) ==
    IF s = <<>> THEN <<>>
    ELSE IF IsPrefix(TokV, s) /\ 2 * i - 1 <= Len(calls)
    THEN calls[2 * i - 1].to \o SubstituteInOrder(Drop(s, Len(TokV)), calls, i + 1, j)
    ELSE IF IsPrefix(TokP, s) /\ 2 * j <= Len(calls)
    THEN calls[2 * j].to \o SubstituteInOrder(Drop(s, Len(TokP)), calls, i, j + 1)
    ELSE <<Head(s)>> \o SubstituteInOrder(Tail(s), calls, i, j)

\* C1: when garage_supply has substituted its template, the k-th "{:.2}V" (and
\* the k-th "{:.2}%") of the template has become the k-th value requested for
\* that token, rounded to two decimals, for every k.
C1_KthOccurrenceKthValue ==
    (prog = "garage_supply" /\ pc = "write") =>
        markdown_content \in
            {SubstituteInOrder(markdown_template, calls, 1, 1) : calls \in ReplaceCalls(args.length)}

\* C2: once generate_markdown has substituted, no raw token occurs anywhere in
\* the text it returned, nor in the file once that text is written: no "{:.2}"
\* for garage_earth, no "{:.2}V" and no "{:.2}%" for garage_supply.
C2_NoRawToken ==
    (prog \in TemplatePrograms /\ (pc = "write" \/ Happened("write_ok"))) =>
        LET texts == {markdown_content}
                        \cup (IF Happened("write_ok") THEN {fs[MdPath(prog)].data} ELSE {})
        IN  \A text \in texts :
               IF prog = "garage_earth"
               THEN ~Contains(text, Tok)
               ELSE ~Contains(text, TokV) /\ ~Contains(text, TokP)

C2_Witness ==
    /\ prog = "garage_supply"
    /\ Happened("write_ok")
    /\ Matches(markdown_template, TokV) >= 1
    /\ Matches(markdown_template, TokP) >= 1
    /\ fs[MdPath(prog)].data = markdown_content

\* C3 as stated: a run that has ended has a non-zero status exactly when its
\* template could not be read or its output could not be written.
C3_ExitStatusFilesOnly ==
    pc = "exit" => (exit_code # 0 <=> (Happened("read_err") \/ Happened("write_err")))

\* what stderr shows of the two failures that are not file failures
Stderr(message) == \E i \in 1..Len(stderr) : stderr[i] = message

ArgsRejected == prog = "garage_supply" /\ argv.kind = "rejected"

PrintFailed == Stderr("failed printing to stdout")

\* C3, amended: a run that has ended has a non-zero status exactly when its
\* command line was rejected, a line of its report could not be printed, its
\* template could not be read or its output could not be written; the status is
\* 0 in every other run.
C3_ExitStatus ==
    pc = "exit" =>
        /\ exit_code # 0 <=>
              (ArgsRejected \/ PrintFailed \/ Happened("read_err") \/ Happened("write_err"))
        /\ exit_code = 0 <=> Happened("write_ok")

C3_Witness ==
    /\ pc = "exit"
    /\ Happened("write_err")
    /\ exit_code # 0
    /\ ~ArgsRejected
    /\ ~PrintFailed
    /\ ~Happened("read_err")

\* C4: when the template cannot be read the run has ended at the read: the
\* failed read is its only file operation (no second read, no write), the
\* status is that of a panic, nothing was substituted and every file is as it
\* was when the run began; and a run whose template does not exist never gets
\* past the read.
C4_ReadFailureAborts ==
    /\ Happened("read_err") =>
          /\ pc = "exit"
          /\ events = <<"read_err">>
          /\ exit_code = PanicStatus
          /\ markdown_template = <<>>
          /\ markdown_content = <<>>
          /\ fs = fs0
          /\ Stderr("Failed to read markdown template")
    /\ (prog \in TemplatePrograms /\ ~fs0[MdPath(prog)].exists) =>
          /\ pc \notin {"substitute", "write"}
          /\ Writes = {}
          /\ ~Happened("read_ok")

C4_Witness ==
    /\ prog = "garage_supply"
    /\ pc = "exit"
    /\ events = <<"read_err">>
    /\ ~fs0[MdPath(prog)].exists
    /\ console = Len(Report(prog, args))
    /\ exit_code = PanicStatus

\* C5: a run performs at most one file read and at most one file write.
C5_AtMostOneReadOneWrite ==
    /\ Cardinality(Reads) <= 1
    /\ Cardinality(Writes) <= 1

C5_Witness ==
    /\ prog = "garage_earth"
    /\ pc = "exit"
    /\ events = <<"read_ok", "write_err">>

\* the number of println! calls main of program p makes before it generates
\* the markdown
ReportLength(p) ==
    CASE p = "garage_earth" -> 7
      [] p = "garage_supply" -> 28
      [] p = "earthing_conductor" -> 23

\* the position of the console: every line of the report has been printed
ReportPrinted == console = ReportLength(prog)

\* C6 as stated, for every run: no file is touched before the whole report is
\* printed and no line is printed afterwards, and a write comes only after a
\* read of the template.
C6_OrderInEveryRun ==
    /\ events # <<>> => ReportPrinted
    /\ \A w \in Writes : \E r \in Reads : r < w

\* C6, amended: in a run of garage_earth or garage_supply the whole report is
\* printed, then the template is read, then its tokens are substituted, then
\* the result is written; earthing_conductor reads nothing: it prints the whole
\* report, then formats the markdown, then writes it. In all three no line is
\* printed once the markdown is being generated.
C6_Order ==
    /\ (events # <<>> \/ pc \in {"read", "substitute", "format", "write"}) => ReportPrinted
    /\ prog \in TemplatePrograms =>
          /\ \A w \in Writes : w = 2 /\ events[1] = "read_ok"
          /\ pc = "substitute" => events = <<"read_ok">> /\ markdown_content = <<>>
          /\ pc = "write" => events = <<"read_ok">>
          /\ pc = "read" => events = <<>>
    /\ prog = "earthing_conductor" =>
          /\ Reads = {}
          /\ \A w \in Writes : w = 1
          /\ pc \in {"format", "write"} => events = <<>>

C6_Witness ==
    /\ prog = "garage_supply"
    /\ pc = "exit"
    /\ events = <<"read_ok", "write_ok">>
    /\ console = Len(Report(prog, args))
    /\ console > 0

\* C7: in garage_supply the length is 45 without the flag and the flag's value
\* with it; every row of the console tables holds the voltage drop of that
\* length (row k of nine: rating * current * length / 1000), and the text
\* generated for the markdown is the substitution for that length: it holds
\* the 32A/10mm drop of that length wherever the template had a "{:.2}V".
C7_LengthInEffect ==
    (prog = "garage_supply" /\ ~ArgsRejected) =>
        /\ pc # "parse" => args.length = RInt(LengthInEffect)
        /\ pc = "read" =>
              LET lines == ConsoleLines
                  rows == SelectSeq(lines, LAMBDA l : l.fmt = RowFormat)
              IN  /\ Len(rows) = 9
                  /\ lines[3] = Line("Cable Length: {}m", <<RInt(LengthInEffect)>>)
                  /\ \A k \in 1..9 :
                        LET rating10 == <<47, 29, 19>>[((k - 1) \div 3) + 1]
                            current == <<32, 40, 50>>[((k - 1) % 3) + 1]
                            drop == rows[k].args[2]
                        IN  /\ rows[k].args[1] = RInt(current)
                            /\ drop[1] * 10000 = drop[2] * rating10 * current * LengthInEffect
        /\ pc = "write" =>
              /\ markdown_content \in
                    GarageSupplySubstitute(markdown_template, RInt(LengthInEffect))
              /\ Contains(markdown_template, TokV) =>
                    Contains(markdown_content,
                             HundredthsChars(FALSE, (47 * 32 * LengthInEffect + 50) \div 100)
                                 \o <<"V">>)

C7_Witness ==
    /\ prog = "garage_supply"
    /\ argv.kind = "none"
    /\ pc = "write"
    /\ console = 28
    /\ Contains(markdown_template, TokV)
    /\ Contains(markdown_content, <<"6", ".", "7", "7", "V">>)

\* C12 as the specification states it: a zero or negative k_factor, and a zero
\* nominal voltage, give an infinite or not-a-number result.
C12_NonFiniteForNonPositiveK ==
    /\ (call.fn = "calculate_conductor_size" /\ call.args[3][1] <= 0) =>
          (~IsFinite(call.result.lo) /\ ~IsFinite(call.result.hi))
    /\ (call.fn = "calculate_percentage_drop" /\ call.args[2] = RInt(0)) =>
          ~IsFinite(call.result)

\* C12: no call is guarded, every call returns a value. With a zero k_factor
\* (and a positive fault current and duration) calculate_conductor_size returns
\* +infinity; with a negative k_factor it returns a finite negative number, the
\* size for -k_factor with its sign changed; with a zero nominal voltage
\* calculate_percentage_drop returns +infinity for a positive voltage drop and
\* not-a-number for a zero one.
C12_EdgeCases ==
    /\ call.fn # "none" => "result" \in DOMAIN call
    /\ (call.fn = "calculate_conductor_size" /\ call.args[3][1] = 0) =>
          (call.result.lo = <<1, 0>> /\ call.result.hi = <<1, 0>>)
    /\ (call.fn = "calculate_conductor_size" /\ call.args[3][1] < 0) =>
          LET fault_current == call.args[1]
              fault_duration == call.args[2]
              k_factor == call.args[3]
              near == RDiv(RMul(call.result.hi, k_factor), fault_current)
              far == RDiv(RMul(call.result.lo, k_factor), fault_current)
          IN  /\ IsFinite(call.result.lo) /\ IsFinite(call.result.hi)
              /\ RLt(call.result.hi, RInt(0))
              /\ RLe(RInt(0), near)
              /\ RLe(RMul(near, near), fault_duration)
              /\ RLe(fault_duration, RMul(far, far))
              /\ RLe(RSub(far, near), Rat(1, 10000))
    /\ (call.fn = "calculate_percentage_drop" /\ call.args[2] = RInt(0)) =>
          call.result = IF call.args[1] = RInt(0) THEN <<0, 0>> ELSE <<1, 0>>

C12_Witness ==
    /\ call.fn = "calculate_conductor_size"
    /\ call.args = <<RInt(580), RInt(5), RInt(-143)>>
    /\ Fmt2Set(call.result.lo, call.result.hi) = {<<"-", "9", ".", "0", "7">>}

\* the table rows on stdout, in order: three of 10mm, three of 16mm, three of 25mm
TableRows == SelectSeq(ConsoleLines, LAMBDA l : l.fmt = RowFormat)

\* C13: once garage_supply has printed its report, in each of the nine table
\* rows the power loss is the voltage drop times the current, the yearly loss
\* is the power loss times 4 * 365 / 1000, the Cosy cost is the yearly loss
\* times 0.1414 and the Go cost the yearly loss times 0.085; the investment of a
\* 10mm row is 0 and that of a 16mm or 25mm row is the Cosy cost of the 10mm row
\* of the same current less the Cosy cost of the row itself.
C13_CostRows ==
    (prog = "garage_supply" /\ pc = "read") =>
        LET rows == TableRows
        IN  /\ Len(rows) = 9
            /\ \A k \in 1..9 :
                  LET current == rows[k].args[1]
                      voltage_drop == rows[k].args[2]
                      power_loss == rows[k].args[4]
                      yearly_power_loss == rows[k].args[5]
                      cosy_cost == rows[k].args[6]
                      go_cost == rows[k].args[7]
                      investment == rows[k].args[8]
                      base == rows[((k - 1) % 3) + 1]
                  IN  /\ current = RInt(CASE k % 3 = 1 -> 32 [] k % 3 = 2 -> 40 [] k % 3 = 0 -> 50)
                      /\ base.args[1] = current
                      /\ RDiv(power_loss, voltage_drop) = current
                      /\ RDiv(yearly_power_loss, power_loss) = Rat(4 * 365, 1000)
                      /\ RDiv(cosy_cost, yearly_power_loss) = Rat(1414, 10000)
                      /\ RDiv(go_cost, yearly_power_loss) = Rat(85, 1000)
                      /\ investment = IF k <= 3 THEN RInt(0)
                                      ELSE RSub(base.args[6], cosy_cost)

C13_Witness ==
    /\ prog = "garage_supply"
    /\ pc = "read"
    /\ args.length = RInt(46)
    /\ TableRows[9].args[1] = RInt(50)
    /\ RLt(RInt(0), TableRows[9].args[8])
    /\ TableRows[3].args[8] = RInt(0)

\* text s with every "{:.2}V" turned into v and every "{:.2}%" into q
RECURSIVE FirstValuesEverywhere(_, _, _)
FirstValuesEverywhere(s, v, q) ==
    IF s = <<>> THEN <<>>
    ELSE IF IsPrefix(TokV, s) THEN v \o FirstValuesEverywhere(Drop(s, Len(TokV)), v, q)
    ELSE IF IsPrefix(TokP, s) THEN q \o FirstValuesEverywhere(Drop(s, Len(TokP)), v, q)
    ELSE <<Head(s)>> \o FirstValuesEverywhere(Tail(s), v, q)

\* the 32A/10mm voltage drop and percentage drop at the lengths modelled, as
\* printed: 4.7 * 32 * length / 1000 and that over 230 times 100
FirstVoltageDropText ==
    CASE LengthInEffect = 45 -> <<"6", ".", "7", "7", "V">>
      [] LengthInEffect = 10 -> <<"1", ".", "5", "0", "V">>
      [] LengthInEffect = 46 -> <<"6", ".", "9", "2", "V">>

FirstPercentageDropText ==
    CASE LengthInEffect = 45 -> <<"2", ".", "9", "4", "%">>
      [] LengthInEffect = 10 -> <<"0", ".", "6", "5", "%">>
      [] LengthInEffect = 46 -> <<"3", ".", "0", "1", "%">>

\* C14: when garage_supply has substituted its template, each of the sixteen
\* replace calls after the first two leaves the text of the first two unchanged,
\* and the text returned is the template with every "{:.2}V" turned into the
\* 32A/10mm voltage drop and every "{:.2}%" into the 32A/10mm percentage drop.
C14_OnlyFirstReplaceActs ==
    (prog = "garage_supply" /\ pc = "write") =>
        /\ \A calls \in ReplaceCalls(args.length) :
              LET two == ApplyCalls(markdown_template, calls, 2)
              IN  \A n \in 3..Len(calls) :
                     replace(two, calls[n].from, calls[n].to) = two
        /\ markdown_content =
              FirstValuesEverywhere(markdown_template, FirstVoltageDropText,
                                    FirstPercentageDropText)

C14_Witness ==
    /\ prog = "garage_supply"
    /\ pc = "write"
    /\ args.length = RInt(46)
    /\ markdown_template = TokV \o TokV
    /\ markdown_content = <<"6", ".", "9", "2", "V", "6", ".", "9", "2", "V">>

\* C15: in a run of garage_earth or garage_supply that follows a successful
\* run and itself writes its file, the text substituted is the text read, and
\* the file after the write is the file as it was when the run began, whatever
\* the command line of the run.
C15_LaterRunsChangeNothing ==
    (prog \in TemplatePrograms /\ succeeded /\ Happened("write_ok")) =>
        /\ markdown_content = markdown_template
        /\ fs0[MdPath(prog)] = File(markdown_template)
        /\ fs = fs0

C15_Witness ==
    /\ prog = "garage_supply"
    /\ succeeded
    /\ Happened("write_ok")
    /\ argv = [kind |-> "length", length |-> 46]
    /\ fs[MdPath(prog)] = File(<<"6", ".", "7", "7", "V", "x">>)

\* the characters a formatted number is made of
FigureChars == {DigitChar(d) : d \in 0..9} \cup {".", "-"}

\* the numbers in text s, as printed, in order: its maximal runs of FigureChars
RECURSIVE Figures(_)
Figures(s) ==
    IF s = <<>> THEN <<>>
    ELSE IF Head(s) \notin FigureChars THEN Figures(Tail(s))
    ELSE LET n == CHOOSE k \in 1..Len(s) :
                     /\ \A i \in 1..k : s[i] \in FigureChars
                     /\ k = Len(s) \/ s[k + 1] \notin FigureChars
         IN  <<SubSeq(s, 1, n)>> \o Figures(Drop(s, n))

\* the hundredths a figure "i.ff" stands for
RECURSIVE Hundredths(_)
Hundredths(figure) ==
    IF figure = <<>> THEN 0
    ELSE LET c == figure[Len(figure)]
             front == Hundredths(SubSeq(figure, 1, Len(figure) - 1))
         IN  IF c = "." THEN front
             ELSE 10 * front + (CHOOSE d \in 0..9 : DigitChar(d) = c)

\* C16: earthing_conductor reads no file in any run; whatever its file held
\* when the run began, and whether or not it existed, the text it formats and
\* writes is the one report text, with the figures 11.26, 11.26, 4.90, 5.63,
\* 5.63, 2.45 and 4.90.
C16_SameContentEveryRun ==
    prog = "earthing_conductor" =>
        /\ Reads = {}
        /\ markdown_template = <<>>
        /\ (pc = "write" \/ Happened("write_ok")) =>
              /\ EarthingConductorMarkdown = {markdown_content}
              /\ Figures(markdown_content) =
                    << <<"1", "1", ".", "2", "6">>, <<"1", "1", ".", "2", "6">>,
                       <<"4", ".", "9", "0">>, <<"5", ".", "6", "3">>,
                       <<"5", ".", "6", "3">>, <<"2", ".", "4", "5">>,
                       <<"4", ".", "9", "0">> >>
        /\ Happened("write_ok") => fs[MdPath(prog)] = File(markdown_content)

C16_Witness ==
    /\ prog = "earthing_conductor"
    /\ run = 2
    /\ ~succeeded
    /\ fs0[MdPath(prog)] = File(TokV \o <<"x">>)
    /\ Happened("write_ok")
    /\ fs[MdPath(prog)].data \in EarthingConductorMarkdown

\* C17: in the report earthing_conductor formats, the percentage of the closing
\* note is the percentage of example 1, as a value and as printed; it is above
\* 3 and at most 5; the voltage drop and the percentage of example 2 are half
\* those of example 1, as values and as printed.
C17_ClosingNote ==
    (prog = "earthing_conductor" /\ pc = "write") =>
        LET arguments == EarthingConductorArguments
            figures == Figures(markdown_content)
        IN  /\ Len(figures) = 7
            /\ arguments[7] = arguments[3]
            /\ figures[7] = figures[3]
            /\ RLt(RInt(3), arguments[7]) /\ RLe(arguments[7], RInt(5))
            /\ 300 < Hundredths(figures[7]) /\ Hundredths(figures[7]) <= 500
            /\ RMul(arguments[4], RInt(2)) = arguments[1]
            /\ RMul(arguments[6], RInt(2)) = arguments[3]
            /\ 2 * Hundredths(figures[4]) = Hundredths(figures[1])
            /\ 2 * Hundredths(figures[6]) = Hundredths(figures[3])

C17_Witness ==
    /\ prog = "earthing_conductor"
    /\ pc = "write"
    /\ Figures(markdown_content)[7] = <<"4", ".", "9", "0">>
    /\ Figures(markdown_content)[6] = <<"2", ".", "4", "5">>

====
